---- MODULE Spec2Model ----
(***************************************************************************)
(* Model of webscrapers.reddit: the URL classifier get_reddit_id_from_url, *)
(* the old.reddit.com post page parser parse_reddit_post_html and the      *)
(* comment indexer build_comment_tree; and of webscrapers.download_page.   *)
(*                                                                         *)
(* A Python str is a sequence of one-character strings; None is the empty  *)
(* tuple and a present optional value v is the one-element tuple <<v>>.    *)
(***************************************************************************)
EXTENDS Integers, Sequences, FiniteSets, TLC

VARIABLES url, info, page, post, comment_list, comment_tree, resp, gets, pc, ret

\* comment_list, comment_tree: argument and outcome of build_comment_tree
indexVars == <<comment_list, comment_tree>>
\* resp, gets, pc, ret: download_page's last response, the requests it has
\* made, its position and its outcome; its url is the variable url
downloadVars == <<resp, gets, pc, ret>>

vars == <<url, info, page, post, comment_list, comment_tree, resp, gets, pc, ret>>

(***************************************************************************)
(* Bounds of the model.                                                    *)
(***************************************************************************)
\* Longest path, in segments, of an enumerated URL.
MaxSegments == 6
\* Most comment nodes in the comment area of an enumerated page.
MaxNodes == 4
\* Longest list of comments handed to build_comment_tree on its own.
MaxComments == 4

(***************************************************************************)
(* Python str operations.                                                  *)
(***************************************************************************)
None == <<>>
Some(v) == <<v>>

UpperChars == <<"A","B","C","D","E","F","G","H","I","J","K","L","M",
                "N","O","P","Q","R","S","T","U","V","W","X","Y","Z">>
LowerChars == <<"a","b","c","d","e","f","g","h","i","j","k","l","m",
                "n","o","p","q","r","s","t","u","v","w","x","y","z">>
DigitChars == <<"0","1","2","3","4","5","6","7","8","9">>

Range(s) == {s[i] : i \in 1..Len(s)}

\* str.lower() on one character
LowerChar(c) ==
    IF c \in Range(UpperChars)
    THEN LowerChars[CHOOSE i \in 1..Len(UpperChars) : UpperChars[i] = c]
    ELSE c

\* str.lower()
Lower(s) == [i \in 1..Len(s) |-> LowerChar(s[i])]

\* str.find(c): 1-based index of the first c in s, 0 when there is none
Find(s, c) ==
    IF c \in Range(s)
    THEN CHOOSE i \in 1..Len(s) : s[i] = c /\ \A j \in 1..(i-1) : s[j] # c
    ELSE 0

\* s[i:] for a 1-based i
From(s, i) == SubSeq(s, i, Len(s))

\* str.startswith / str.endswith
StartsWith(s, p) == Len(s) >= Len(p) /\ SubSeq(s, 1, Len(p)) = p
EndsWith(s, p) == Len(s) >= Len(p) /\ SubSeq(s, Len(s) - Len(p) + 1, Len(s)) = p

\* str.split(c): every piece, empty ones included
RECURSIVE Split(_, _)
Split(s, c) ==
    LET i == Find(s, c)
    IN IF i = 0 THEN <<s>>
       ELSE <<SubSeq(s, 1, i-1)>> \o Split(From(s, i+1), c)

\* str.split(c, maxsplit=1)
Split1(s, c) ==
    LET i == Find(s, c)
    IN IF i = 0 THEN <<s>> ELSE <<SubSeq(s, 1, i-1), From(s, i+1)>>

Whitespace == {" "}

\* str.strip()
Strip(s) ==
    LET keep == {i \in 1..Len(s) : s[i] \notin Whitespace}
    IN IF keep = {} THEN <<>>
       ELSE SubSeq(s, CHOOSE i \in keep : \A j \in keep : i <= j,
                      CHOOSE i \in keep : \A j \in keep : i >= j)

IsAlnum(c) == c \in Range(UpperChars) \cup Range(LowerChars) \cup Range(DigitChars)

\* re.compile(r"^[a-zA-Z0-9]{lo,hi}$").match(s)
MatchAlnum(s, lo, hi) ==
    /\ Len(s) >= lo
    /\ Len(s) <= hi
    /\ \A i \in 1..Len(s) : IsAlnum(s[i])

(***************************************************************************)
(* Constants of the classifier.                                            *)
(***************************************************************************)
PostIdMin == 5
PostIdMax == 8
CommentIdMin == 6
CommentIdMax == 10

_POST_ID_RE(s) == MatchAlnum(s, PostIdMin, PostIdMax)

\* mutants of _COMMENT_ID_RE: an upper bound one short, a lower bound one short
CommentIdReShort(s) == MatchAlnum(s, CommentIdMin, CommentIdMax - 1)
CommentIdReWide(s) == MatchAlnum(s, CommentIdMin - 1, CommentIdMax)

_COMMENT_ID_RE(s) == MatchAlnum(s, CommentIdMin, CommentIdMax)

ReddIt == <<"r","e","d","d",".","i","t">>
WwwReddIt == <<"w","w","w",".">> \o ReddIt
RedditCom == <<"r","e","d","d","i","t",".","c","o","m">>
DotRedditCom == <<".">> \o RedditCom

SHORTLINK_HOSTS == {ReddIt, WwwReddIt}
MIN_SUBREDDIT_SEGMENTS == 2
MIN_POST_SEGMENTS == 4
MIN_COMMENT_SEGMENTS == 6

SegR == <<"r">>
SegU == <<"u">>
SegUser == <<"u","s","e","r">>
SegComments == <<"c","o","m","m","e","n","t","s">>
SegPopular == <<"p","o","p","u","l","a","r">>
SegAll == <<"a","l","l">>

(***************************************************************************)
(* urllib.parse.urlparse, as far as the classifier reads it: netloc and    *)
(* path, or ValueError for a netloc with an unmatched bracket.             *)
(***************************************************************************)
SchemeChars == Range(UpperChars) \cup Range(LowerChars) \cup Range(DigitChars)
                   \cup {"+", "-", "."}

\* the URL after its scheme, when it starts with one
DropScheme(u) ==
    LET i == Find(u, ":")
    IN IF /\ i > 1
          /\ u[1] \in Range(UpperChars) \cup Range(LowerChars)
          /\ \A j \in 1..(i-1) : u[j] \in SchemeChars
       THEN From(u, i+1)
       ELSE u

\* index of the first of "/", "?", "#" at or after position 3, else Len+1
NetlocEnd(u) ==
    LET hits == {i \in 3..Len(u) : u[i] \in {"/", "?", "#"}}
    IN IF hits = {} THEN Len(u) + 1
       ELSE CHOOSE i \in hits : \A j \in hits : i <= j

\* s up to the first c, all of s when there is none
Before(s, c) == LET i == Find(s, c) IN IF i = 0 THEN s ELSE SubSeq(s, 1, i-1)

urlparse(u) ==
    LET rest == DropScheme(u)
        hasNetloc == StartsWith(rest, <<"/", "/">>)
        netloc == IF hasNetloc THEN SubSeq(rest, 3, NetlocEnd(rest) - 1) ELSE <<>>
        after == IF hasNetloc THEN From(rest, NetlocEnd(rest)) ELSE rest
        path == Before(Before(after, "#"), "?")
    IN IF ("[" \in Range(netloc)) # ("]" \in Range(netloc))
       THEN [ok |-> FALSE, netloc |-> <<>>, path |-> <<>>]
       ELSE [ok |-> TRUE, netloc |-> netloc, path |-> path]

(***************************************************************************)
(* The classifier.                                                         *)
(***************************************************************************)
_normalize_netloc(netloc) == Split1(Lower(netloc), ":")[1]

_split_path(path) == SelectSeq(Split(path, "/"), LAMBDA seg : seg # <<>>)

_parse_reddit_domain(parsed_netloc) ==
    LET netloc == _normalize_netloc(parsed_netloc)
    IN IF netloc \in SHORTLINK_HOSTS THEN TRUE
       ELSE netloc = RedditCom \/ EndsWith(netloc, DotRedditCom)

\* What a call returns or raises.
NoMatch == [t |-> "none"]
Raise(m) == [t |-> "RedditScraperError", msg |-> m]
ValueError == [t |-> "ValueError"]
RedditUrlInfo(k, u, sub, user, pid, cid) ==
    [t |-> "info", kind |-> k, original_url |-> u, subreddit |-> sub,
     username |-> user, post_id |-> pid, comment_id |-> cid]

_parse_shortlink(netloc, segments, u) ==
    IF netloc \notin SHORTLINK_HOSTS THEN NoMatch
    ELSE LET slug == IF segments # <<>> THEN segments[1] ELSE <<>>
         IN IF ~_POST_ID_RE(slug)
            THEN Raise("Shortlink missing a valid post ID")
            ELSE RedditUrlInfo("post", u, None, None, Some(Lower(slug)), None)

_parse_frontpage(netloc, segments, u) ==
    IF segments # <<>> THEN NoMatch
    ELSE RedditUrlInfo("frontpage", u, None, None, None, None)

\* mutant of _parse_subreddit_path: popular and all compared without lower()
ParseSubredditPathCaseSensitive(netloc, segments, u) ==
    IF Len(segments) < MIN_SUBREDDIT_SEGMENTS \/ segments[1] # SegR THEN NoMatch
    ELSE
    LET subreddit == segments[2]
    IN IF subreddit = SegPopular
       THEN RedditUrlInfo("popular", u, None, None, None, None)
       ELSE IF subreddit = SegAll
       THEN RedditUrlInfo("all", u, None, None, None, None)
       ELSE IF Len(segments) >= MIN_POST_SEGMENTS /\ segments[3] = SegComments
       THEN LET post_id == segments[4]
                comment_id ==
                    IF /\ Len(segments) >= MIN_COMMENT_SEGMENTS
                       /\ _COMMENT_ID_RE(segments[6])
                    THEN Some(Lower(segments[6]))
                    ELSE None
                kind == IF comment_id # None THEN "comment" ELSE "post"
            IN IF ~_POST_ID_RE(post_id)
               THEN Raise("URL contains an invalid post ID")
               ELSE RedditUrlInfo(kind, u, Some(subreddit), None,
                                  Some(Lower(post_id)), comment_id)
       ELSE RedditUrlInfo("subreddit", u, Some(subreddit), None, None, None)

\* mutant of _parse_subreddit_path: an invalid post id is skipped, not raised
ParseSubredditPathLenient(netloc, segments, u) ==
    IF Len(segments) < MIN_SUBREDDIT_SEGMENTS \/ segments[1] # SegR THEN NoMatch
    ELSE
    LET subreddit == segments[2]
    IN IF Lower(subreddit) = SegPopular
       THEN RedditUrlInfo("popular", u, None, None, None, None)
       ELSE IF Lower(subreddit) = SegAll
       THEN RedditUrlInfo("all", u, None, None, None, None)
       ELSE IF /\ Len(segments) >= MIN_POST_SEGMENTS
               /\ segments[3] = SegComments
               /\ _POST_ID_RE(segments[4])
       THEN LET post_id == segments[4]
                comment_id ==
                    IF /\ Len(segments) >= MIN_COMMENT_SEGMENTS
                       /\ _COMMENT_ID_RE(segments[6])
                    THEN Some(Lower(segments[6]))
                    ELSE None
                kind == IF comment_id # None THEN "comment" ELSE "post"
            IN RedditUrlInfo(kind, u, Some(subreddit), None,
                             Some(Lower(post_id)), comment_id)
       ELSE RedditUrlInfo("subreddit", u, Some(subreddit), None, None, None)

_parse_subreddit_path(netloc, segments, u) ==
    IF Len(segments) < MIN_SUBREDDIT_SEGMENTS \/ segments[1] # SegR THEN NoMatch
    ELSE
    LET subreddit == segments[2]
    IN IF Lower(subreddit) = SegPopular
       THEN RedditUrlInfo("popular", u, None, None, None, None)
       ELSE IF Lower(subreddit) = SegAll
       THEN RedditUrlInfo("all", u, None, None, None, None)
       ELSE IF Len(segments) >= MIN_POST_SEGMENTS /\ segments[3] = SegComments
       THEN LET post_id == segments[4]
                comment_id ==
                    IF /\ Len(segments) >= MIN_COMMENT_SEGMENTS
                       /\ _COMMENT_ID_RE(segments[6])
                    THEN Some(Lower(segments[6]))
                    ELSE None
                kind == IF comment_id # None THEN "comment" ELSE "post"
            IN IF ~_POST_ID_RE(post_id)
               THEN Raise("URL contains an invalid post ID")
               ELSE RedditUrlInfo(kind, u, Some(subreddit), None,
                                  Some(Lower(post_id)), comment_id)
       ELSE RedditUrlInfo("subreddit", u, Some(subreddit), None, None, None)

\* mutant of _parse_user_path: the name is stored as subreddit as well
ParseUserPathAlsoSubreddit(netloc, segments, u) ==
    IF Len(segments) < MIN_SUBREDDIT_SEGMENTS \/ segments[1] \notin {SegUser, SegU}
    THEN NoMatch
    ELSE RedditUrlInfo("user", u, Some(segments[2]), Some(segments[2]), None, None)

_parse_user_path(netloc, segments, u) ==
    IF Len(segments) < MIN_SUBREDDIT_SEGMENTS \/ segments[1] \notin {SegUser, SegU}
    THEN NoMatch
    ELSE RedditUrlInfo("user", u, None, Some(segments[2]), None, None)

\* mutant of parsers: the frontpage matcher tried before the short-link one
ParsersFrontpageFirst == <<"_parse_frontpage", "_parse_shortlink",
                           "_parse_subreddit_path", "_parse_user_path">>

\* the tuple of parsers, in the order the loop tries them
parsers == <<"_parse_shortlink", "_parse_frontpage",
             "_parse_subreddit_path", "_parse_user_path">>

CallParser(name, netloc, segments, u) ==
    CASE name = "_parse_shortlink" -> _parse_shortlink(netloc, segments, u)
      [] name = "_parse_frontpage" -> _parse_frontpage(netloc, segments, u)
      [] name = "_parse_subreddit_path" -> _parse_subreddit_path(netloc, segments, u)
      [] name = "_parse_user_path" -> _parse_user_path(netloc, segments, u)

\* for parser in parsers: first result that is not None, or the raise
RECURSIVE TryParsers(_, _, _, _)
TryParsers(i, netloc, segments, u) ==
    IF i > Len(parsers)
    THEN Raise("URL does not match a supported Reddit pattern")
    ELSE LET r == CallParser(parsers[i], netloc, segments, u)
         IN IF r = NoMatch THEN TryParsers(i + 1, netloc, segments, u) ELSE r

get_reddit_id_from_url(u) ==
    IF u = <<>> \/ Strip(u) = <<>>
    THEN Raise("A non-empty Reddit URL is required")
    ELSE LET parsed == urlparse(Strip(u))
         IN IF ~parsed.ok THEN ValueError
            ELSE IF ~_parse_reddit_domain(parsed.netloc)
            THEN Raise("URL does not belong to reddit")
            ELSE TryParsers(1, _normalize_netloc(parsed.netloc),
                            _split_path(parsed.path), u)

(***************************************************************************)
(* The parsed page.  A node of the tree HTMLParser builds is a record:     *)
(* tag, attrs (a function from the names of its attributes to their        *)
(* values), kids (child nodes in document order) and text (the characters  *)
(* of a text node, whose tag is "-text").                                  *)
(***************************************************************************)
NoAttrs == [a \in {} |-> <<>>]

El(tag, attrs, kids) == [tag |-> tag, attrs |-> attrs, kids |-> kids, text |-> <<>>]
Txt(s) == [tag |-> "-text", attrs |-> NoAttrs, kids |-> <<>>, text |-> s]

\* node.attributes.get(name)
Attr(node, name) ==
    IF name \in DOMAIN node.attrs THEN Some(node.attrs[name]) ELSE None

\* x or "" for an optional str x
OrEmpty(x) == IF x = None THEN <<>> ELSE x[1]

\* needle in haystack, for two str
Contains(haystack, needle) ==
    \E i \in 1..(Len(haystack) - Len(needle) + 1) :
        SubSeq(haystack, i, i + Len(needle) - 1) = needle

\* the class tokens of a node, as a CSS class selector sees them
ClassTokens(node) ==
    {t \in Range(Split(OrEmpty(Attr(node, "class")), " ")) : t # <<>>}

\* One compound selector tag.class1.class2[attr='value']: sel.tag,
\* sel.classes (a set of tokens), sel.attr (None or <<name, value>>).
Compound(tag, classes, attr) == [tag |-> tag, classes |-> classes, attr |-> attr]

Matches(node, sel) ==
    /\ node.tag = sel.tag
    /\ sel.classes \subseteq ClassTokens(node)
    /\ sel.attr # None => Attr(node, sel.attr[1]) = Some(sel.attr[2])

\* the nodes of a subtree in document order, each with its ancestors inside
\* the subtree, outermost first
RECURSIVE Walk(_, _)
RECURSIVE WalkKids(_, _, _)
Walk(node, anc) ==
    <<[n |-> node, anc |-> anc]>> \o WalkKids(node.kids, 1, Append(anc, node))
WalkKids(kids, i, anc) ==
    IF i > Len(kids) THEN <<>>
    ELSE Walk(kids[i], anc) \o WalkKids(kids, i + 1, anc)

\* ancestors matching the compounds of chain in order (descendant combinator)
RECURSIVE AncestorsMatch(_, _)
AncestorsMatch(anc, chain) ==
    IF chain = <<>> THEN TRUE
    ELSE \E i \in 1..Len(anc) :
            /\ Matches(anc[i], chain[Len(chain)])
            /\ AncestorsMatch(SubSeq(anc, 1, i - 1), SubSeq(chain, 1, Len(chain) - 1))

\* node.css(selector): the matches in document order
css(node, chain) ==
    LET hits == SelectSeq(Walk(node, <<>>),
                    LAMBDA w : /\ Matches(w.n, chain[Len(chain)])
                               /\ AncestorsMatch(w.anc, SubSeq(chain, 1, Len(chain) - 1)))
    IN [i \in 1..Len(hits) |-> hits[i].n]

\* node.css_first(selector): None or the first match
css_first(node, chain) ==
    LET hits == css(node, chain)
    IN IF hits = <<>> THEN None ELSE Some(hits[1])

\* node.text(): the text of the subtree, concatenated in document order
RECURSIVE NodeText(_)
RECURSIVE KidsText(_, _)
NodeText(node) ==
    IF node.tag = "-text" THEN node.text ELSE KidsText(node.kids, 1)
KidsText(kids, i) ==
    IF i > Len(kids) THEN <<>>
    ELSE NodeText(kids[i]) \o KidsText(kids, i + 1)

\* node.text(strip=True): every text part stripped, then concatenated
RECURSIVE NodeTextStrip(_)
RECURSIVE KidsTextStrip(_, _)
NodeTextStrip(node) ==
    IF node.tag = "-text" THEN Strip(node.text) ELSE KidsTextStrip(node.kids, 1)
KidsTextStrip(kids, i) ==
    IF i > Len(kids) THEN <<>>
    ELSE NodeTextStrip(kids[i]) \o KidsTextStrip(kids, i + 1)

ClsThing == <<"t","h","i","n","g">>
ClsComment == <<"c","o","m","m","e","n","t">>
ClsLink == <<"l","i","n","k">>
ClsEntry == <<"e","n","t","r","y">>
ClsChild == <<"c","h","i","l","d">>
ClsSitetable == <<"s","i","t","e","t","a","b","l","e">>
ClsNestedlisting == <<"n","e","s","t","e","d","l","i","s","t","i","n","g">>
ClsCommentarea == <<"c","o","m","m","e","n","t","a","r","e","a">>
ClsAuthor == <<"a","u","t","h","o","r">>
ClsTagline == <<"t","a","g","l","i","n","e">>
ClsUsertextBody == <<"u","s","e","r","t","e","x","t","-","b","o","d","y">>
ClsMd == <<"m","d">>
ClsDeleted == <<"d","e","l","e","t","e","d">>
TextDeleted == <<"[","d","e","l","e","t","e","d","]">>
TextRemoved == <<"[","r","e","m","o","v","e","d","]">>

SelPostNode == <<Compound("div", {ClsThing, ClsLink}, None)>>
SelThing == <<Compound("div", {ClsThing}, None)>>
SelCommentArea == <<Compound("div", {ClsCommentarea}, None),
                    Compound("div", {ClsSitetable, ClsNestedlisting}, None)>>
SelEntry == <<Compound("div", {ClsEntry}, None)>>
SelChildContainer == <<Compound("div", {ClsChild}, None),
                       Compound("div", {ClsSitetable}, None)>>
SelParentLink == <<Compound("a", {}, <<"data-event-action", "parent">>)>>
SelAuthor == <<Compound("a", {ClsAuthor}, None)>>
SelTagline == <<Compound("p", {ClsTagline}, None)>>
SelContent == <<Compound("div", {ClsUsertextBody}, None),
                Compound("div", {ClsMd}, None)>>

(***************************************************************************)
(* The pages the parser is applied to.  A page is an old.reddit.com post   *)
(* page: the post node, then the comment area holding a forest of at most  *)
(* MaxNodes comment nodes.  Every comment node is written as the site      *)
(* writes it, except one node of the forest (the focus), which takes each  *)
(* of the variants below.  The state holds the page as the record of these *)
(* choices, the_page; HTMLParser(the_page) is the tree the parser reads.   *)
(*   post     "none": no post node; "link": class "thing link";            *)
(*            "self": class "link thing self"                              *)
(*   area     whether the page has a comment area                          *)
(*   forest   the comment forest; a tree is the tuple of its child trees   *)
(*   focus    the path of the varied node: <<2, 1>> is the 1st child of    *)
(*            the 2nd top-level comment                                    *)
(*   variant  "plain"        as the site writes it: data-fullname t1_C<path>,*)
(*                           a parent link "#c<parent path>" below top level*)
(*            "linkUpper"    parent link "#C<parent path>" below top level *)
(*            "linkOther"    parent link "#zz"                             *)
(*            "linkNoHash"   parent link "/r/c<parent path>"               *)
(*            "linkOnTop"    parent link "#c<parent path>" at any level    *)
(*            "placeholder"  class "thing morechildren", data-type         *)
(*                           morechildren                                  *)
(*            "typedMore"    a comment node with data-type morechildren    *)
(*            "noFullname"   no data-fullname attribute                    *)
(*            "noUnderscore" data-fullname "t1"                            *)
(*            "emptyId"      data-fullname "t1_"                           *)
(*            "noEntry"      no div.entry of its own                       *)
(*            "wrapped"      the node sits inside one more div             *)
(*            "span"         the node is a span, not a div                 *)
(*            "noSitetable"  its replies sit in its div.child directly,    *)
(*                           with no div.sitetable around them             *)
(*   entry    what the entry of the focus holds (the other comments hold   *)
(*            SiteEntry):                                                  *)
(*            author   "elem": an a.author element; "none": no such element*)
(*            tagline  "plain": a p.tagline; "deleted": a p.tagline whose  *)
(*                     text holds "[deleted]"; "none": no p.tagline        *)
(*            marker   "none"; "token": the node's class has the token     *)
(*                     deleted; "substr": it has the token undeleted       *)
(*            body     "hi": the text " hi "; "deleted": "[deleted]";      *)
(*                     "removed": "[removed]"; "removedPad": " [removed] ";*)
(*                     "removedMore": "[removed] x"; "none": no body       *)
(* The post node takes further forms: "linkish": class "thing linkflair";  *)
(* "bare": class "thing link" and nothing else; "span": a span, not a div. *)
(***************************************************************************)
Sp == <<" ">>
Class(c) == "class" :> c

\* the forests of exactly n nodes; a tree is the tuple of its child trees
RECURSIVE Forests(_)
Forests(n) ==
    IF n = 0 THEN {<<>>}
    ELSE UNION {{<<t>> \o rest : t \in Forests(k - 1), rest \in Forests(n - k)} :
                    k \in 1..n}

\* the paths of the nodes of a forest: <<2, 1>> is the 1st child of the 2nd tree
RECURSIVE ForestPaths(_, _)
ForestPaths(forest, prefix) ==
    UNION {{Append(prefix, i)} \cup ForestPaths(forest[i], Append(prefix, i)) :
              i \in 1..Len(forest)}

\* the id the site gave the comment at a path, as written in data-fullname
RECURSIVE FullnameId(_)
FullnameId(path) ==
    IF path = <<>> THEN <<"C">>
    ELSE FullnameId(SubSeq(path, 1, Len(path) - 1)) \o <<DigitChars[path[Len(path)] + 1]>>

NodeVariants == {"plain", "linkUpper", "linkOther", "linkNoHash", "linkOnTop",
                 "placeholder", "typedMore", "noFullname", "noUnderscore",
                 "emptyId", "noEntry", "wrapped", "span", "noSitetable"}

EntryShape(author, tagline, marker, body) ==
    [author |-> author, tagline |-> tagline, marker |-> marker, body |-> body]

SiteEntry == EntryShape("elem", "plain", "none", "hi")

EntryShapes ==
    {EntryShape(a, t, m, b) :
        a \in {"elem", "none"},
        t \in {"plain", "deleted", "none"},
        m \in {"none", "token", "substr"},
        b \in {"hi", "deleted", "removed", "removedPad", "removedMore", "none"}}

AuthorName == <<"b","o">>

T1 == <<"t","1","_">>
T3 == <<"t","3","_">>

UserText(body) ==
    El("div", Class(ClsUsertextBody),
       <<El("div", Class(ClsMd), <<El("p", NoAttrs, <<Txt(body)>>)>>)>>)

ParentLink(href) ==
    El("a", "data-event-action" :> "parent" @@ "href" :> href, <<Txt(<<"p">>)>>)

\* the caption of an entry: the author element and the caption's own text
TaglineOf(shape) ==
    LET author == IF shape.author = "elem"
                  THEN <<El("a", Class(ClsAuthor), <<Txt(AuthorName)>>)>>
                  ELSE <<>>
        gone == IF shape.tagline = "deleted"
                THEN <<El("span", NoAttrs, <<Txt(TextDeleted)>>)>>
                ELSE <<>>
    IN IF shape.tagline = "none" THEN author
       ELSE <<El("p", Class(ClsTagline), author \o gone \o <<Txt(<<" ","1"," ">>)>>)>>

BodyText(body) ==
    CASE body = "hi" -> <<" ","h","i"," ">>
      [] body = "deleted" -> TextDeleted
      [] body = "removed" -> TextRemoved
      [] body = "removedPad" -> Sp \o TextRemoved \o Sp
      [] body = "removedMore" -> TextRemoved \o <<" ","x">>

BodyOf(shape) ==
    IF shape.body = "none" THEN <<>> ELSE <<UserText(BodyText(shape.body))>>

EntryDiv(hrefs, shape) ==
    El("div", Class(ClsEntry),
       TaglineOf(shape) \o BodyOf(shape)
       \o [i \in 1..Len(hrefs) |-> ParentLink(hrefs[i])])

ChildDiv(kids) ==
    El("div", Class(ClsChild),
       IF kids = <<>> THEN <<>>
       ELSE <<El("div", Class(ClsSitetable \o Sp \o <<"l","i","s","t","i","n","g">>),
                 kids)>>)

\* the parent links of the node at path under a variant
ParentHrefs(path, variant) ==
    LET parent == FullnameId(SubSeq(path, 1, Len(path) - 1))
    IN CASE variant = "linkUpper" /\ Len(path) > 1 -> <<<<"#">> \o parent>>
         [] variant = "linkOther" -> <<<<"#","z","z">>>>
         [] variant = "linkNoHash" -> <<<<"/","r","/">> \o Lower(parent)>>
         [] variant = "linkOnTop" -> <<<<"#">> \o Lower(parent)>>
         [] OTHER -> IF Len(path) > 1 THEN <<<<"#">> \o Lower(parent)>> ELSE <<>>

MarkerClass(marker) ==
    CASE marker = "none" -> <<>>
      [] marker = "token" -> ClsDeleted \o Sp
      [] marker = "substr" -> <<"u","n">> \o ClsDeleted \o Sp

CommentAttrs(path, variant, shape) ==
    Class(IF variant = "placeholder"
          THEN ClsThing \o Sp \o <<"m","o","r","e","c","h","i","l","d","r","e","n">>
          ELSE Sp \o ClsThing \o Sp \o <<"i","d","-">> \o T1 \o Lower(FullnameId(path))
               \o Sp \o ClsComment \o Sp \o MarkerClass(shape.marker))
    @@ "data-type" :> (IF variant \in {"placeholder", "typedMore"}
                       THEN "morechildren" ELSE "comment")
    @@ CASE variant = "noFullname" -> NoAttrs
         [] variant = "noUnderscore" -> "data-fullname" :> <<"t","1">>
         [] variant = "emptyId" -> "data-fullname" :> T1
         [] OTHER -> "data-fullname" :> (T1 \o FullnameId(path))

\* the node at path of a forest, with the node at focus taking the variant
RECURSIVE CommentNode(_, _, _, _, _)
CommentNode(tree, path, focus, variant, shape) ==
    LET v == IF path = focus THEN variant ELSE "plain"
        sh == IF path = focus THEN shape ELSE SiteEntry
        kids == [i \in 1..Len(tree) |->
                    CommentNode(tree[i], Append(path, i), focus, variant, shape)]
        node == El(IF v = "span" THEN "span" ELSE "div",
                   CommentAttrs(path, v, sh),
                   (IF v = "noEntry" THEN <<>>
                    ELSE <<EntryDiv(ParentHrefs(path, v), sh)>>)
                   \o (IF v = "noSitetable"
                       THEN <<El("div", Class(ClsChild), kids)>>
                       ELSE <<ChildDiv(kids)>>))
    IN IF v = "wrapped" THEN El("div", NoAttrs, <<node>>) ELSE node

PostNode(cls) ==
    El("div", Class(cls) @@ "data-fullname" :> (T3 \o <<"P","q","1","x","y">>),
       <<EntryDiv(<<>>, SiteEntry)>>)

CommentArea(forest, focus, variant, shape) ==
    El("div", Class(ClsCommentarea),
       <<El("div", Class(ClsSitetable \o Sp \o ClsNestedlisting),
            [i \in 1..Len(forest) |->
                CommentNode(forest[i], <<i>>, focus, variant, shape)])>>)

PostNodeClass(kind) ==
    CASE kind = "link" -> ClsThing \o Sp \o ClsLink
      [] kind = "linkish" -> ClsThing \o Sp \o ClsLink \o <<"f","l","a","i","r">>
      [] OTHER -> ClsLink \o Sp \o ClsThing \o Sp \o <<"s","e","l","f">>

PostKinds == {"none", "link", "self", "linkish", "bare", "span"}

\* the post node of a page, if it has one
PostNodeOf(kind) ==
    CASE kind = "none" -> <<>>
      [] kind = "bare" -> <<El("div", Class(ClsThing \o Sp \o ClsLink), <<>>)>>
      [] kind = "span" -> <<[PostNode(ClsThing \o Sp \o ClsLink) EXCEPT !.tag = "span"]>>
      [] OTHER -> <<PostNode(PostNodeClass(kind))>>

\* the tree HTMLParser builds from the page
HTMLParser(the_page) ==
    El("html", NoAttrs,
       <<El("body", NoAttrs,
            PostNodeOf(the_page.post)
            \o
            (IF the_page.area
             THEN <<CommentArea(the_page.forest, the_page.focus, the_page.variant,
                                the_page.entry)>>
             ELSE <<>>))>>)

ThePage(postKind, area, forest, focus, variant, shape) ==
    [post |-> postKind, area |-> area, forest |-> forest, focus |-> focus,
     variant |-> variant, entry |-> shape]

AllForests == UNION {Forests(n) : n \in 0..MaxNodes}

\* the forests whose focus takes every entry shape
ShapeForests == UNION {Forests(n) : n \in 1..2}

Pages ==
    UNION {{ThePage("link", TRUE, f, p, v, SiteEntry) :
               p \in ForestPaths(f, <<>>), v \in NodeVariants} : f \in AllForests}
    \cup
    UNION {{ThePage("link", TRUE, f, p, "plain", sh) :
               p \in ForestPaths(f, <<>>), sh \in EntryShapes} : f \in ShapeForests}
    \cup
    {ThePage(k, a, f, <<1>>, "plain", SiteEntry) :
        k \in PostKinds, a \in BOOLEAN,
        f \in {<<>>, <<<<<<>>>>, <<>>>>}}

(***************************************************************************)
(* The field extractors and the comment tree builder.                      *)
(***************************************************************************)
_extract_fullname_id(fullname) ==
    IF fullname = None \/ fullname = Some(<<>>) THEN None
    ELSE LET parts == Split1(fullname[1], "_")
         IN IF Len(parts) = 2 THEN Some(Lower(parts[2])) ELSE None

\* mutant of _extract_comment_author: the deleted flag is read before the
\* author element
ExtractCommentAuthorFlagFirst(entry, is_deleted) ==
    LET author_elem == css_first(entry, SelAuthor)
        tagline == css_first(entry, SelTagline)
    IN IF is_deleted THEN Some(TextDeleted)
       ELSE IF author_elem # None THEN Some(NodeTextStrip(author_elem[1]))
       ELSE IF tagline # None /\ Contains(NodeText(tagline[1]), TextDeleted)
       THEN Some(TextDeleted)
       ELSE None

_extract_comment_author(entry, is_deleted) ==
    LET author_elem == css_first(entry, SelAuthor)
        tagline == css_first(entry, SelTagline)
    IN IF author_elem # None THEN Some(NodeTextStrip(author_elem[1]))
       ELSE IF tagline # None /\ Contains(NodeText(tagline[1]), TextDeleted)
       THEN Some(TextDeleted)
       ELSE IF is_deleted THEN Some(TextDeleted)
       ELSE None

\* mutant of _extract_comment_content: the two sentinels are swapped
ExtractCommentContentSwapped(entry) ==
    LET content_div == css_first(entry, SelContent)
    IN IF content_div = None
       THEN [content_text |-> None, is_deleted |-> FALSE, is_removed |-> FALSE]
       ELSE LET content_text == NodeTextStrip(content_div[1])
            IN [content_text |-> Some(content_text),
                is_deleted |-> content_text = TextRemoved,
                is_removed |-> content_text = TextDeleted]

\* content_text, is_deleted, is_removed (content_html is not modelled)
_extract_comment_content(entry) ==
    LET content_div == css_first(entry, SelContent)
    IN IF content_div = None
       THEN [content_text |-> None, is_deleted |-> FALSE, is_removed |-> FALSE]
       ELSE LET content_text == NodeTextStrip(content_div[1])
            IN [content_text |-> Some(content_text),
                is_deleted |-> content_text = TextDeleted,
                is_removed |-> content_text = TextRemoved]

_extract_parent_id(entry) ==
    LET parent_link == css_first(entry, SelParentLink)
        href == IF parent_link = None THEN None ELSE Attr(parent_link[1], "href")
    IN IF href # None /\ StartsWith(href[1], <<"#">>)
       THEN Some(From(href[1], 2))
       ELSE None

\* mutant of _build_comment_context: is_deleted needs the class marker and
\* the body sentinel together
BuildCommentContextBoth(node) ==
    LET comment_id == _extract_fullname_id(Attr(node, "data-fullname"))
        node_class == OrEmpty(Attr(node, "class"))
        is_deleted_class == Contains(node_class, ClsDeleted)
        entry == css_first(node, SelEntry)
    IN IF comment_id = None \/ comment_id = Some(<<>>) THEN None
       ELSE IF entry = None THEN None
       ELSE LET content == _extract_comment_content(entry[1])
                is_deleted == is_deleted_class /\ content.is_deleted
            IN Some([comment_id |-> comment_id,
                     author |-> _extract_comment_author(entry[1], is_deleted),
                     content_text |-> content.content_text,
                     parent_id |-> _extract_parent_id(entry[1]),
                     is_deleted |-> is_deleted,
                     is_removed |-> content.is_removed])

\* None, or the fields of _CommentParseContext the comment record keeps
_build_comment_context(node) ==
    LET comment_id == _extract_fullname_id(Attr(node, "data-fullname"))
        node_class == OrEmpty(Attr(node, "class"))
        is_deleted_class == Contains(node_class, ClsDeleted)
        entry == css_first(node, SelEntry)
    IN IF comment_id = None \/ comment_id = Some(<<>>) THEN None
       ELSE IF entry = None THEN None
       ELSE LET content == _extract_comment_content(entry[1])
                is_deleted == is_deleted_class \/ content.is_deleted
            IN Some([comment_id |-> comment_id,
                     author |-> _extract_comment_author(entry[1], is_deleted),
                     content_text |-> content.content_text,
                     parent_id |-> _extract_parent_id(entry[1]),
                     is_deleted |-> is_deleted,
                     is_removed |-> content.is_removed])

_get_direct_comment_children(container) ==
    SelectSeq(container.kids,
        LAMBDA child :
            /\ child.tag = "div"
            /\ Contains(OrEmpty(Attr(child, "class")), ClsThing)
            /\ Contains(OrEmpty(Attr(child, "class")), ClsComment))

\* mutant of ChildDepth: the child is parsed at its parent's depth
ChildDepthSame(depth) == depth

\* the depth handed to the recursive call for a child
ChildDepth(depth) == depth + 1

\* mutant of Present: collecting stops at the first absent result
RECURSIVE PresentUntilAbsent(_)
PresentUntilAbsent(opts) ==
    IF opts = <<>> \/ Head(opts) = None THEN <<>>
    ELSE Head(opts) \o PresentUntilAbsent(Tail(opts))

\* the present results of a sequence of optional results, in order
RECURSIVE Present(_)
Present(opts) ==
    IF opts = <<>> THEN <<>>
    ELSE Head(opts) \o Present(Tail(opts))

RedditCommentData(ctx, post_id, depth, children) ==
    [comment_id |-> ctx.comment_id, post_id |-> post_id,
     parent_id |-> ctx.parent_id, author |-> ctx.author,
     content_text |-> ctx.content_text, deleted |-> ctx.is_deleted,
     removed |-> ctx.is_removed, depth |-> depth, children |-> children]

RECURSIVE _parse_comment_node(_, _, _)
_parse_comment_node(node, post_id, depth) ==
    IF Attr(node, "data-type") = Some("morechildren") THEN None
    ELSE LET ctx == _build_comment_context(node) IN
    IF ctx = None THEN None
    ELSE LET child_container == css_first(node, SelChildContainer)
             child_nodes == IF child_container = None THEN <<>>
                            ELSE _get_direct_comment_children(child_container[1])
             children == Present([i \in 1..Len(child_nodes) |->
                            _parse_comment_node(child_nodes[i], post_id,
                                                ChildDepth(depth))])
         IN Some(RedditCommentData(ctx[1], post_id, depth, children))

\* the post node: the primary selector, then the scan of div.thing nodes
FindPostNode(root) ==
    LET primary == css_first(root, SelPostNode)
        scan == SelectSeq(css(root, SelThing),
                    LAMBDA n : Contains(OrEmpty(Attr(n, "class")), ClsLink))
    IN IF primary # None THEN primary
       ELSE IF scan # <<>> THEN Some(scan[1])
       ELSE None

ExtractionError == [t |-> "RedditScraperError",
                    msg |-> "Could not find post element in HTML"]

parse_reddit_post_html(the_page) ==
    LET root == HTMLParser(the_page)
        post_node == FindPostNode(root) IN
    IF post_node = None THEN ExtractionError
    ELSE LET post_id == _extract_fullname_id(Attr(post_node[1], "data-fullname"))
             comment_area == css_first(root, SelCommentArea)
             comment_nodes == IF comment_area = None THEN <<>>
                              ELSE _get_direct_comment_children(comment_area[1])
             comments == Present([i \in 1..Len(comment_nodes) |->
                            _parse_comment_node(comment_nodes[i], post_id, 0)])
         IN [t |-> "post", post_id |-> post_id, comments |-> comments]

(***************************************************************************)
(* build_comment_tree.  A dict is a function from its keys to its values;  *)
(* the keys here are optional str: None or Some(parent id).                *)
(***************************************************************************)
EmptyDict == [k \in {} |-> <<>>]

\* mutant of AppendTo: the comment is put in front of its group
PrependTo(group, comment) == <<comment>> \o group

\* tree[parent].append(comment)
AppendTo(group, comment) == Append(group, comment)

\* if parent not in tree: tree[parent] = []
OpenGroup(tree, comment) ==
    LET parent == comment.parent_id
    IN IF parent \notin DOMAIN tree
       THEN [k \in DOMAIN tree \cup {parent} |->
                IF k \in DOMAIN tree THEN tree[k] ELSE <<>>]
       ELSE tree

\* for comment in comments, from the i-th on, with the dict built so far
RECURSIVE IndexLoop(_, _, _)
IndexLoop(comments, i, tree) ==
    IF i > Len(comments) THEN tree
    ELSE LET comment == comments[i]
             opened == OpenGroup(tree, comment)
         IN IndexLoop(comments, i + 1,
                [opened EXCEPT ![comment.parent_id] = AppendTo(@, comment)])

build_comment_tree(comments) == IndexLoop(comments, 1, EmptyDict)

(***************************************************************************)
(* webscrapers.download_page.  A response is a record of its status, its   *)
(* Location header (None, or Some of a bytes or str value) and its body.   *)
(* A bytes value is a sequence of bytes: an ASCII byte is written as its   *)
(* character, a byte above 0x7F as "xNN".  A str is a sequence of          *)
(* characters, a character above U+007F written as "U+NNNN".               *)
(***************************************************************************)
max_redirects == 5
REDIRECT_STATUSES == {301, 302, 303, 307, 308}

Bytes(b) == [type |-> "bytes", data |-> b]
Str(c) == [type |-> "str", data |-> c]

HighBytes == {"xC3", "xA9", "xE9"}

\* bytes.decode("utf-8"): the characters, or ok = FALSE for UnicodeDecodeError
RECURSIVE Utf8Decode(_)
Utf8Decode(b) ==
    IF b = <<>> THEN [ok |-> TRUE, str |-> <<>>]
    ELSE IF b[1] \notin HighBytes
    THEN LET rest == Utf8Decode(Tail(b))
         IN [ok |-> rest.ok, str |-> <<b[1]>> \o rest.str]
    ELSE IF Len(b) >= 2 /\ b[1] = "xC3" /\ b[2] = "xA9"
    THEN LET rest == Utf8Decode(Tail(Tail(b)))
         IN [ok |-> rest.ok, str |-> <<"U+00E9">> \o rest.str]
    ELSE [ok |-> FALSE, str |-> <<>>]

\* location_str: location.decode("utf-8") for bytes, str(location) otherwise
LocationStr(location) ==
    IF location.type = "bytes" THEN Utf8Decode(location.data)
    ELSE [ok |-> TRUE, str |-> location.data]

\* urljoin(url, location_str) for a location_str that starts with "/"
urljoin(base, ref) ==
    LET rest == DropScheme(base)
        scheme == SubSeq(base, 1, Len(base) - Len(rest))
        netloc == IF StartsWith(rest, <<"/", "/">>)
                  THEN SubSeq(rest, 1, NetlocEnd(rest) - 1)
                  ELSE <<>>
    IN IF StartsWith(ref, <<"/", "/">>) THEN scheme \o ref
       ELSE scheme \o netloc \o ref

\* await resp.text()
Text(r) == [t |-> "text", body |-> r.body]

UnicodeDecodeError == [t |-> "UnicodeDecodeError"]
RuntimeError == [t |-> "RuntimeError", msg |-> "No response received from client.get()"]

\* the body of the loop after resp = await client.get(url), for the n-th
\* request: the url to ask next, where the function goes on, and what it
\* returns or raises there
HandleResponse(u, r, n) ==
    IF r.status \in REDIRECT_STATUSES
    THEN IF r.location = None \/ r.location[1].data = <<>>
         THEN [url |-> u, pc |-> "after", ret |-> [t |-> "pending"]]
         ELSE LET location_str == LocationStr(r.location[1])
              IN IF ~location_str.ok
                 THEN [url |-> u, pc |-> "done", ret |-> UnicodeDecodeError]
                 ELSE [url |-> IF StartsWith(location_str.str, <<"/">>)
                               THEN urljoin(u, location_str.str)
                               ELSE location_str.str,
                       pc |-> IF n = max_redirects THEN "after" ELSE "loop",
                       ret |-> [t |-> "pending"]]
    ELSE [url |-> u, pc |-> "done", ret |-> Text(r)]

(***************************************************************************)
(* The URLs the classifier is applied to: optional surrounding blanks, an  *)
(* optional scheme, a host, a path of up to MaxSegments segments written   *)
(* with single or with doubled and trailing slashes, an optional query.    *)
(***************************************************************************)
Str5 == <<"a","b","c","1","2">>
Str4 == <<"a","b","c","d">>
Str8 == <<"A","b","3","d","E","6","7","8">>
Str9 == <<"a","b","c","d","e","f","g","h","i">>
Str6 == <<"h","1","i","l","o","u">>
Str10 == <<"A","b","C","d","E","f","G","h","I","j">>
Str11 == <<"a","b","c","d","e","f","g","h","i","j","k">>
StrUnder == <<"a","b","_","1","2","x">>
SubName == <<"N","v">>
Slug == <<"s","l","u","g">>

SegChoices(i) ==
    CASE i = 1 -> {SegR, <<"R">>, SegU, SegUser, Str5, Str4}
      [] i = 2 -> {SubName, SegPopular, <<"P","o","p","u","l","a","r">>,
                   SegAll, <<"A","L","L">>}
      [] i = 3 -> {SegComments, <<"t","o","p">>}
      [] i = 4 -> {Str5, Str8, Str4, Str9, StrUnder}
      [] i = 5 -> {Slug}
      [] i = 6 -> {Str6, Str10, Str5, Str11, StrUnder}
      [] OTHER -> {<<"x">>}

RECURSIVE SegSeqs(_)
SegSeqs(n) ==
    IF n = 0 THEN {<<>>}
    ELSE {Append(p, s) : p \in SegSeqs(n - 1), s \in SegChoices(n)}

AllPaths == UNION {SegSeqs(n) : n \in 0..MaxSegments}
ShortPaths == UNION {SegSeqs(n) : n \in 0..2}

\* "/a/b" (plain) or "/a//b/" (doubled)
RECURSIVE JoinPath(_, _)
JoinPath(segs, doubled) ==
    IF segs = <<>> THEN (IF doubled THEN <<"/">> ELSE <<>>)
    ELSE (IF doubled /\ Len(segs) > 1 THEN <<"/", "/">> ELSE <<"/">>)
         \o Head(segs) \o JoinPath(Tail(segs), doubled)

HttpsScheme == <<"h","t","t","p","s",":","/","/">>
Port == <<":","8","0">>

CoreHosts == {<<"O","l","d",".","R","e","d","d","i","t",".","C","o","m">> \o Port,
              <<"W","W","W",".","R","e","d","d",".","I","t">> \o Port}

EdgeHosts == {<<>>,
              RedditCom,
              ReddIt,
              WwwReddIt,
              <<"n","p">> \o DotRedditCom,
              <<"x",".","c","o","m">>,
              <<"n","o","t">> \o RedditCom,
              RedditCom \o <<".","i","o">>,
              <<"o","l","d",".">> \o ReddIt,
              <<"u","@">> \o RedditCom,
              <<"[">> \o RedditCom,
              ReddIt \o <<":","[">>}

MkUrl(lead, scheme, host, segs, doubled, query) ==
    lead \o scheme \o host \o JoinPath(segs, doubled) \o query \o lead

Urls ==
    {MkUrl(<<>>, HttpsScheme, h, p, d, <<>>) :
        h \in CoreHosts, p \in AllPaths, d \in BOOLEAN}
    \cup
    {MkUrl(l, s, h, p, FALSE, <<>>) :
        l \in {<<>>, <<" ">>},
        s \in {HttpsScheme, <<"/","/">>, <<>>},
        h \in CoreHosts \cup EdgeHosts,
        p \in ShortPaths}
    \cup
    {MkUrl(<<>>, HttpsScheme, h, p, FALSE, q) :
        h \in CoreHosts \cup EdgeHosts,
        p \in ShortPaths,
        q \in {<<"?","q","=","/","r","/","x">>, <<"#","/","u","/","x">>}}
    \cup {<<>>, <<" ">>, <<" ", " ">>}

(***************************************************************************)
(* Specification of the classifier: one call on one URL.                   *)
(***************************************************************************)
NotCalled == [t |-> "pending"]
Unused == [t |-> "unused"]

InitClassify ==
    /\ url \in Urls
    /\ info = NotCalled
    /\ page = Unused
    /\ post = Unused
    /\ comment_list = Unused
    /\ comment_tree = Unused
    /\ resp = Unused
    /\ gets = 0
    /\ pc = "unused"
    /\ ret = Unused

Classify ==
    /\ info = NotCalled
    /\ info' = get_reddit_id_from_url(url)
    /\ UNCHANGED <<url, page, post, indexVars, downloadVars>>

NextClassify == Classify

SpecClassify == InitClassify /\ [][NextClassify]_vars

(***************************************************************************)
(* Specification of the parser: one call on one page.                      *)
(***************************************************************************)
InitParse ==
    /\ page \in Pages
    /\ post = NotCalled
    /\ url = <<>>
    /\ info = Unused
    /\ comment_list = Unused
    /\ comment_tree = Unused
    /\ resp = Unused
    /\ gets = 0
    /\ pc = "unused"
    /\ ret = Unused

ParsePost ==
    /\ post = NotCalled
    /\ post' = parse_reddit_post_html(page)
    /\ UNCHANGED <<page, url, info, indexVars, downloadVars>>

NextParse == ParsePost

SpecParse == InitParse /\ [][NextParse]_vars

(***************************************************************************)
(* Specification of the indexer: one call on one list of comments.  The    *)
(* list is any sequence of at most MaxComments comments drawn, repeats     *)
(* allowed, from a pool in which ids and parent ids differ, repeat, differ *)
(* in case only, or name no comment of the list.                           *)
(***************************************************************************)
Dict(d) == [t |-> "dict", items |-> d]

PoolIds == {<<"a">>, <<"b">>}
PoolParents == {None, Some(<<"a">>), Some(<<"A">>)}

AComment(id, parent) ==
    RedditCommentData([comment_id |-> Some(id), parent_id |-> parent,
                       author |-> None, content_text |-> None,
                       is_deleted |-> FALSE, is_removed |-> FALSE],
                      None, 0, <<>>)

Pool == {AComment(id, parent) : id \in PoolIds, parent \in PoolParents}

RECURSIVE Lists(_)
Lists(n) ==
    IF n = 0 THEN {<<>>}
    ELSE {Append(l, c) : l \in Lists(n - 1), c \in Pool}

CommentLists == UNION {Lists(n) : n \in 0..MaxComments}

InitIndex ==
    /\ comment_list \in CommentLists
    /\ comment_tree = NotCalled
    /\ url = <<>>
    /\ info = Unused
    /\ page = Unused
    /\ post = Unused
    /\ resp = Unused
    /\ gets = 0
    /\ pc = "unused"
    /\ ret = Unused

Index ==
    /\ comment_tree = NotCalled
    /\ comment_tree' = Dict(build_comment_tree(comment_list))
    /\ UNCHANGED <<comment_list, url, info, page, post, downloadVars>>

NextIndex == Index

SpecIndex == InitIndex /\ [][NextIndex]_vars

(***************************************************************************)
(* Specification of a parsed thread held as a flat list: the page is       *)
(* parsed, the comments of the Post are listed parents first and siblings  *)
(* in order, and the list is handed to build_comment_tree.                 *)
(***************************************************************************)
RECURSIVE Flatten(_)
Flatten(forest) ==
    IF forest = <<>> THEN <<>>
    ELSE <<Head(forest)>> \o Flatten(Head(forest).children) \o Flatten(Tail(forest))

InitThread ==
    /\ page \in Pages
    /\ post = NotCalled
    /\ comment_list = NotCalled
    /\ comment_tree = NotCalled
    /\ url = <<>>
    /\ info = Unused
    /\ resp = Unused
    /\ gets = 0
    /\ pc = "unused"
    /\ ret = Unused

IndexPost ==
    /\ post # NotCalled
    /\ post.t = "post"
    /\ comment_tree = NotCalled
    /\ comment_list' = Flatten(post.comments)
    /\ comment_tree' = Dict(build_comment_tree(Flatten(post.comments)))
    /\ UNCHANGED <<url, info, page, post, downloadVars>>

NextThread == ParsePost \/ IndexPost

SpecThread == InitThread /\ [][NextThread]_vars

(***************************************************************************)
(* Specification of download_page: one call; the server answers every GET  *)
(* with any of the responses below.                                        *)
(***************************************************************************)
Statuses == {200, 404, 300} \cup REDIRECT_STATUSES

Locations ==
    {None,
     Some(Bytes(<<>>)),
     Some(Bytes(<<"/","a">>)),
     Some(Bytes(<<"/","/","c",".","i","o","/","d">>)),
     Some(Bytes(<<"x">>)),
     Some(Bytes(<<"/","xC3","xA9">>)),
     Some(Bytes(<<"/","xE9">>)),
     Some(Str(<<"h","t","t","p","s",":","/","/","b",".","i","o","/">>))}

Bodies == {"A", "B"}

Responses ==
    {[status |-> st, location |-> l, body |-> b] :
        st \in Statuses, l \in Locations, b \in Bodies}

StartUrl == <<"h","t","t","p","s",":","/","/","a",".","i","o","/","p">>

InitDownload ==
    /\ url = StartUrl
    /\ resp = None
    /\ gets = 0
    /\ pc = "loop"
    /\ ret = NotCalled
    /\ info = Unused
    /\ page = Unused
    /\ post = Unused
    /\ comment_list = Unused
    /\ comment_tree = Unused

\* one pass of the loop: resp = await client.get(url), then the rest of the body
Request ==
    /\ pc = "loop"
    /\ gets < max_redirects
    /\ \E r \in Responses :
          LET next == HandleResponse(url, r, gets + 1)
          IN /\ resp' = Some(r)
             /\ gets' = gets + 1
             /\ url' = next.url
             /\ pc' = next.pc
             /\ ret' = next.ret
    /\ UNCHANGED <<info, page, post, indexVars>>

\* after the loop: the text of the last response, or RuntimeError without one
AfterLoop ==
    /\ pc = "after"
    /\ ret' = IF resp # None THEN Text(resp[1]) ELSE RuntimeError
    /\ pc' = "done"
    /\ UNCHANGED <<url, resp, gets, info, page, post, indexVars>>

NextDownload == Request \/ AfterLoop

SpecDownload == InitDownload /\ [][NextDownload]_vars

(***************************************************************************)
(* Claims about the classifier.  The vocabulary below restates the spec's  *)
(* words over the URL the call was given.                                  *)
(***************************************************************************)
Called == info # NotCalled
Returned == info.t = "info"
Failed == info.t = "RedditScraperError"

UrlBlank == Strip(url) = <<>>
Parsed == urlparse(Strip(url))
HasHost == ~UrlBlank /\ Parsed.ok
Host == _normalize_netloc(Parsed.netloc)
Segs == _split_path(Parsed.path)

ShortHost == HasHost /\ Host \in {ReddIt, WwwReddIt}
SiteHost == HasHost /\ (Host = RedditCom \/ EndsWith(Host, DotRedditCom))

PostIdShape(s) == Len(s) \in 5..8 /\ \A i \in 1..Len(s) : IsAlnum(s[i])
CommentIdShape(s) == Len(s) \in 6..10 /\ \A i \in 1..Len(s) : IsAlnum(s[i])
HasUpper(s) == \E i \in 1..Len(s) : s[i] \in Range(UpperChars)

PopularOrAll(s) == Lower(s) \in {SegPopular, SegAll}
SubredditPath == Len(Segs) >= 2 /\ Segs[1] = SegR
CommentsPath ==
    /\ SubredditPath
    /\ ~PopularOrAll(Segs[2])
    /\ Len(Segs) >= 4
    /\ Segs[3] = SegComments

\* the path shapes section 4.1 of the spec lets a matcher accept
ShapeAccepted ==
    IF ShortHost THEN Len(Segs) >= 1 /\ PostIdShape(Segs[1])
    ELSE \/ Segs = <<>>
         \/ SubredditPath /\ (CommentsPath => PostIdShape(Segs[4]))
         \/ Len(Segs) >= 2 /\ Segs[1] \in {SegUser, SegU}

Absent(f) == f = None

\* C1: the call raises RedditScraperError for every URL that is blank, whose
\* normalized host is neither reddit.com, a subdomain of it nor a short-link
\* host, or whose path no matcher accepts; for every other URL it returns a
\* locator.
C1_ErrorExactlyWhenRejected ==
    Called =>
        IF UrlBlank \/ ~(ShortHost \/ SiteHost) \/ ~ShapeAccepted
        THEN Failed
        ELSE Returned

\* C2 as stated: for every site URL with segments [r, sub, comments, post,
\* slug, comment], post of post-id shape and comment of comment-id shape, and
\* for every sub, the locator is kind=comment with lowercased ids and
\* subreddit = sub.
C2_CommentPermalinkAnySub ==
    (/\ Called
     /\ SiteHost
     /\ Len(Segs) = 6
     /\ Segs[1] = SegR
     /\ Segs[3] = SegComments
     /\ PostIdShape(Segs[4])
     /\ CommentIdShape(Segs[6]))
    => /\ Returned
       /\ info.kind = "comment"
       /\ info.post_id = Some(Lower(Segs[4]))
       /\ info.comment_id = Some(Lower(Segs[6]))
       /\ info.subreddit = Some(Segs[2])

\* C2 amended: the same for every sub that is not popular or all (compared
\* case-insensitively).
C2_CommentPermalink ==
    (/\ Called
     /\ SiteHost
     /\ Len(Segs) = 6
     /\ Segs[1] = SegR
     /\ ~PopularOrAll(Segs[2])
     /\ Segs[3] = SegComments
     /\ PostIdShape(Segs[4])
     /\ CommentIdShape(Segs[6]))
    => /\ Returned
       /\ info.kind = "comment"
       /\ info.post_id = Some(Lower(Segs[4]))
       /\ info.comment_id = Some(Lower(Segs[6]))
       /\ info.subreddit = Some(Segs[2])

C2_Witness ==
    /\ Called
    /\ SiteHost
    /\ Len(Segs) = 6
    /\ CommentsPath
    /\ HasUpper(Segs[2]) /\ HasUpper(Segs[4]) /\ HasUpper(Segs[6])
    /\ Len(Segs[6]) = 10
    /\ Returned
    /\ info.kind = "comment"

\* C3: on a short-link host the short-link rule decides alone: a first segment
\* of post-id shape gives kind=post with that segment lowercased as post_id and
\* no subreddit, username or comment_id; anything else, the empty path and
\* /r/<sub> or /u/<name> paths included, fails with RedditScraperError.
C3_ShortlinkDecidesFirst ==
    (Called /\ ShortHost) =>
        IF Len(Segs) >= 1 /\ PostIdShape(Segs[1])
        THEN /\ Returned
             /\ info.kind = "post"
             /\ info.post_id = Some(Lower(Segs[1]))
             /\ Absent(info.subreddit)
             /\ Absent(info.username)
             /\ Absent(info.comment_id)
        ELSE info = Raise("Shortlink missing a valid post ID")

C3_Witness ==
    /\ Called
    /\ ShortHost
    /\ HasUpper(Parsed.netloc)
    /\ Segs = <<>>
    /\ Failed

\* C4: on the site proper, first segment r and second segment popular or all
\* (in any case) give kind=popular or kind=all with no subreddit, post_id or
\* comment_id, whatever follows.
C4_PopularAndAllWin ==
    (Called /\ SiteHost /\ SubredditPath /\ PopularOrAll(Segs[2])) =>
        /\ Returned
        /\ info.kind = (IF Lower(Segs[2]) = SegPopular THEN "popular" ELSE "all")
        /\ Absent(info.subreddit)
        /\ Absent(info.post_id)
        /\ Absent(info.comment_id)

C4_Witness ==
    /\ Called
    /\ SiteHost
    /\ SubredditPath
    /\ HasUpper(Segs[2])
    /\ Len(Segs) >= 4
    /\ Segs[3] = SegComments
    /\ ~PostIdShape(Segs[4])
    /\ Returned
    /\ info.kind = "all"

\* C5: on the site, segments [r, sub, comments, x, ...] with sub not popular
\* or all and x not of post-id shape make the whole call fail in the
\* subreddit-path matcher: no kind=subreddit, no later matcher.
C5_InvalidPostIdFails ==
    (Called /\ SiteHost /\ CommentsPath /\ ~PostIdShape(Segs[4])) =>
        info = Raise("URL contains an invalid post ID")

C5_Witness ==
    /\ Called
    /\ SiteHost
    /\ CommentsPath
    /\ Len(Segs[4]) = 9
    /\ Failed

\* C6: in every returned locator comment_id is present exactly when kind is
\* comment, and then post_id is present; a post path whose 6th segment is
\* missing or not of comment-id shape gives kind=post without comment_id.
C6_CommentIdIffComment ==
    (Called /\ Returned) =>
        /\ (~Absent(info.comment_id)) <=> (info.kind = "comment")
        /\ (~Absent(info.comment_id)) => ~Absent(info.post_id)
        /\ (/\ SiteHost
            /\ CommentsPath
            /\ PostIdShape(Segs[4])
            /\ (Len(Segs) < 6 \/ ~CommentIdShape(Segs[6])))
           => (info.kind = "post" /\ Absent(info.comment_id))

C6_Witness ==
    /\ Called
    /\ Returned
    /\ SiteHost
    /\ CommentsPath
    /\ Len(Segs) >= 6
    /\ Len(Segs[6]) = 5
    /\ info.kind = "post"

Populated == {f \in {"subreddit", "username", "post_id", "comment_id"} :
                 ~Absent(info[f])}
NonTrivialKind == info.kind \in {"subreddit", "user", "post", "comment"}

\* C7 as stated: a returned locator of kind subreddit, user, post or comment
\* has exactly one of subreddit, username, post_id, comment_id populated.
C7_ExactlyOnePopulated ==
    (Called /\ Returned /\ NonTrivialKind) => Cardinality(Populated) = 1

\* C7 amended: such a locator has at least one of them populated, and which
\* ones is fixed by the kind: subreddit alone for kind=subreddit, username
\* alone for kind=user, post_id for kind=post together with subreddit unless
\* the URL is a short link, and subreddit, post_id and comment_id for
\* kind=comment.
C7_PopulatedByKind ==
    (Called /\ Returned /\ NonTrivialKind) =>
        Populated =
            CASE info.kind = "subreddit" -> {"subreddit"}
              [] info.kind = "user" -> {"username"}
              [] info.kind = "post" ->
                    IF ShortHost THEN {"post_id"} ELSE {"subreddit", "post_id"}
              [] info.kind = "comment" -> {"subreddit", "post_id", "comment_id"}

C7_Witness ==
    /\ Called
    /\ Returned
    /\ info.kind = "comment"
    /\ Cardinality(Populated) = 3

(***************************************************************************)
(* Claims about the parsed post.                                           *)
(***************************************************************************)
ParseCalled == post # NotCalled /\ post # Unused
GotPost == ParseCalled /\ post.t = "post"

\* every comment of a forest with its ancestors, outermost first
RECURSIVE Placed(_, _)
Placed(forest, anc) ==
    UNION {{[c |-> forest[i], anc |-> anc]}
              \cup Placed(forest[i].children, Append(anc, forest[i])) :
           i \in 1..Len(forest)}

AllPlaced == IF GotPost THEN Placed(post.comments, <<>>) ELSE {}

HasTypePrefix(s) ==
    Len(s) >= 3 /\ s[1] \in {"t", "T"} /\ s[2] \in Range(DigitChars) /\ s[3] = "_"
CleanId(opt) == opt = None \/ (~HasUpper(opt[1]) /\ ~HasTypePrefix(opt[1]))

\* C8: every identifier stored in an output record (post_id of the Post;
\* comment_id, post_id and parent_id of every Comment) is lowercased and
\* carries no type prefix.
C8_StoredIdsLowercased ==
    GotPost =>
        /\ CleanId(post.post_id)
        /\ \A w \in AllPlaced :
              /\ CleanId(w.c.comment_id)
              /\ CleanId(w.c.post_id)
              /\ CleanId(w.c.parent_id)

\* C9: every top-level comment has depth 0 and every comment in a children
\* sequence has its parent's depth plus one.
C9_DepthIsTreePosition ==
    GotPost =>
        /\ \A i \in 1..Len(post.comments) : post.comments[i].depth = 0
        /\ \A w \in AllPlaced :
              \A i \in 1..Len(w.c.children) : w.c.children[i].depth = w.c.depth + 1

C9_Witness ==
    /\ GotPost
    /\ Len(post.comments) = 2
    /\ \E w \in AllPlaced : Len(w.anc) = 2 /\ w.c.depth = 2

\* C10: a top-level comment has no parent_id, and a parent_id that is present
\* is the comment_id of an ancestor of the comment in the same tree.
C10_ParentIdIsAncestor ==
    GotPost =>
        \A w \in AllPlaced :
            /\ w.anc = <<>> => w.c.parent_id = None
            /\ w.c.parent_id # None =>
                  \E i \in 1..Len(w.anc) : w.anc[i].comment_id = w.c.parent_id

(***************************************************************************)
(* Claims about the fields of a built Comment.  They are stated over the   *)
(* comment built from the focus of the page, whose entry takes every       *)
(* shape.                                                                  *)
(***************************************************************************)
RECURSIVE CommentAt(_, _)
CommentAt(forest, path) ==
    IF Len(path) = 1 THEN forest[path[1]]
    ELSE CommentAt(forest[path[1]].children, Tail(path))

FocusBuilt ==
    /\ GotPost
    /\ page.area
    /\ page.variant = "plain"
    /\ page.focus \in ForestPaths(page.forest, <<>>)

Focus == CommentAt(post.comments, page.focus)

\* the body text of the focus: None without a body, else the text without
\* the blanks around it
FocusBody ==
    IF page.entry.body = "none" THEN None
    ELSE Some(Strip(BodyText(page.entry.body)))

\* the class attribute of the focus contains "deleted"
FocusMarked == page.entry.marker # "none"
FocusHasAuthorElem == page.entry.author = "elem"
FocusCaptionDeleted == page.entry.tagline = "deleted"

\* C13 as stated: body text "[removed]" gives removed and not deleted,
\* "[deleted]" gives deleted, and any other body text gives neither.
C13_FlagsFromBodyOnly ==
    FocusBuilt =>
        CASE FocusBody = Some(TextRemoved) -> Focus.removed /\ ~Focus.deleted
          [] FocusBody = Some(TextDeleted) -> Focus.deleted
          [] OTHER -> ~Focus.removed /\ ~Focus.deleted

\* C13 amended: body text "[removed]" gives removed, "[deleted]" gives
\* deleted and not removed, any other body text gives not removed; and
\* wherever the body text is not "[deleted]", deleted is false unless the
\* class attribute of the node contains "deleted".
C13_FlagsFromBodyAndMarker ==
    FocusBuilt =>
        CASE FocusBody = Some(TextRemoved) ->
                Focus.removed /\ (Focus.deleted <=> FocusMarked)
          [] FocusBody = Some(TextDeleted) -> Focus.deleted /\ ~Focus.removed
          [] OTHER -> ~Focus.removed /\ (Focus.deleted <=> FocusMarked)

C13_Witness ==
    /\ FocusBuilt
    /\ page.entry.body = "removedPad"
    /\ page.entry.marker = "token"
    /\ Focus.removed
    /\ Focus.deleted

\* the page has a div whose class holds both the token thing and the token link
HasPostNode == page.post \in {"link", "self", "bare"}

\* C14: the call raises RedditScraperError exactly when the page has no div
\* carrying both the thing and the link token; with such a div it returns a
\* Post, whatever fields are missing, and a page without a comment area gives
\* an empty comments sequence.
C14_RaisesIffNoPostNode ==
    ParseCalled =>
        /\ (post = ExtractionError) <=> ~HasPostNode
        /\ HasPostNode => post.t = "post"
        /\ (GotPost /\ ~page.area) => post.comments = <<>>

\* C15: the author is the text of the author element when the entry has
\* one, whatever the deleted flag; else "[deleted]" when the caption text
\* contains "[deleted]"; else "[deleted]" when the comment was determined
\* deleted; else absent.
C15_AuthorPrecedence ==
    FocusBuilt =>
        Focus.author =
            IF FocusHasAuthorElem THEN Some(AuthorName)
            ELSE IF FocusCaptionDeleted THEN Some(TextDeleted)
            ELSE IF FocusMarked \/ FocusBody = Some(TextDeleted) THEN Some(TextDeleted)
            ELSE None

C15_Witness ==
    /\ FocusBuilt
    /\ FocusHasAuthorElem
    /\ FocusCaptionDeleted
    /\ Focus.deleted
    /\ Focus.author = Some(AuthorName)

\* C16 as stated: deleted is set by the class marker, by the body sentinel
\* "[deleted]" or by the absence of an author element; removed is set by
\* the body sentinel "[removed]" alone.
C16_DeletedAlsoFromNoAuthor ==
    FocusBuilt =>
        /\ Focus.deleted <=>
              (FocusMarked \/ FocusBody = Some(TextDeleted) \/ ~FocusHasAuthorElem)
        /\ Focus.removed <=> (FocusBody = Some(TextRemoved))

\* C16 amended: deleted is set by the class marker or by the body sentinel
\* "[deleted]" and by nothing else, the absence of an author element
\* included; removed is set by the body sentinel "[removed]" alone.
C16_DeletedFromMarkerOrBody ==
    FocusBuilt =>
        /\ Focus.deleted <=> (FocusMarked \/ FocusBody = Some(TextDeleted))
        /\ Focus.removed <=> (FocusBody = Some(TextRemoved))

C16_Witness ==
    /\ FocusBuilt
    /\ ~FocusHasAuthorElem
    /\ ~FocusCaptionDeleted
    /\ ~FocusMarked
    /\ FocusBody = Some(TextRemoved)
    /\ ~Focus.deleted
    /\ Focus.removed
    /\ Focus.author = None

(***************************************************************************)
(* Claims about the shape of the built forest, stated over the forest the  *)
(* page was written from.  The comment at a path has the id "c" followed   *)
(* by the digits of the path.                                              *)
(***************************************************************************)
VariantAt(path) == IF path = page.focus THEN page.variant ELSE "plain"

\* the node at path is no direct comment node of its container (it is a
\* load-more placeholder, sits inside one more div, or is no div), or the
\* builder returns absent for it (typed as load-more, no usable fullname,
\* no entry in its subtree)
Omitted(tree, path) ==
    \/ VariantAt(path) \in {"placeholder", "wrapped", "span"}
    \/ VariantAt(path) \in {"typedMore", "noFullname", "noUnderscore", "emptyId"}
    \/ VariantAt(path) = "noEntry" /\ tree = <<>>

\* the first tree of a forest that wraps its replies in a div.sitetable
RECURSIVE FirstReplied(_, _, _)
FirstReplied(forest, prefix, i) ==
    IF i > Len(forest) THEN <<>>
    ELSE IF forest[i] # <<>> THEN <<[path |-> Append(prefix, i), kids |-> forest[i]]>>
    ELSE FirstReplied(forest, prefix, i + 1)

\* ids and children expected of the comments built from a forest: the
\* nodes not omitted, in document order.  The container of a comment is the
\* first div.sitetable below the div.child of its node.
RECURSIVE Expected(_, _, _)
RECURSIVE ExpectedKids(_, _)
Expected(forest, prefix, i) ==
    IF i > Len(forest) THEN <<>>
    ELSE LET path == Append(prefix, i)
         IN (IF Omitted(forest[i], path) THEN <<>>
             ELSE <<[id |-> Lower(FullnameId(path)),
                     kids |-> ExpectedKids(forest[i], path)]>>)
            \o Expected(forest, prefix, i + 1)
ExpectedKids(tree, path) ==
    IF VariantAt(path) = "noSitetable"
    THEN LET r == FirstReplied(tree, path, 1)
         IN IF r = <<>> THEN <<>> ELSE Expected(r[1].kids, r[1].path, 1)
    ELSE Expected(tree, path, 1)

\* ids and children of the comments that were built
RECURSIVE Shape(_)
Shape(forest) ==
    [i \in 1..Len(forest) |->
        [id |-> forest[i].comment_id[1], kids |-> Shape(forest[i].children)]]

IsChildId(k, p) == Len(k) = Len(p) + 1 /\ SubSeq(k, 1, Len(p)) = p

\* C18: a comment is in the children sequence of another only when its node
\* is a direct reply of that one (never a reply of a reply), the top-level
\* comments are top-level nodes, and no comment node is built twice.
C18_NeverFlattens ==
    GotPost =>
        /\ \A i \in 1..Len(post.comments) :
              IsChildId(post.comments[i].comment_id[1], <<"c">>)
        /\ \A w \in AllPlaced :
              \A i \in 1..Len(w.c.children) :
                  IsChildId(w.c.children[i].comment_id[1], w.c.comment_id[1])
        /\ LET flat == Flatten(post.comments)
           IN \A i, j \in 1..Len(flat) :
                  i # j => flat[i].comment_id # flat[j].comment_id

(***************************************************************************)
(* Claims about the indexer.                                               *)
(***************************************************************************)
Indexed == comment_tree # NotCalled /\ comment_tree # Unused

\* the group the dict holds under a key; no group reads as the empty one
GroupOf(k) ==
    IF k \in DOMAIN comment_tree.items THEN comment_tree.items[k] ELSE <<>>

\* C11: after a page is parsed and the flattened comments are indexed, the
\* group under every comment's id is that comment's children sequence, in
\* order, and the group under the absent key is the Post's top-level
\* comments sequence.
C11_IndexReproducesChildren ==
    (GotPost /\ Indexed) =>
        /\ GroupOf(None) = post.comments
        /\ \A w \in AllPlaced : GroupOf(w.c.comment_id) = w.c.children

InputKeys == {comment_list[i].parent_id : i \in 1..Len(comment_list)}
InputGroup(k) == SelectSeq(comment_list, LAMBDA c : c.parent_id = k)

\* C12: the keys of the dict are exactly the parent_id values of the input
\* comments, and the group under each key is the input list restricted to
\* the comments with that parent_id: every comment once, under its own key,
\* in input order, and no group empty.
C12_PureRegrouping ==
    Indexed =>
        /\ DOMAIN comment_tree.items = InputKeys
        /\ \A k \in InputKeys :
              /\ comment_tree.items[k] = InputGroup(k)
              /\ comment_tree.items[k] # <<>>

C12_Witness ==
    /\ Indexed
    /\ Len(comment_list) = 4
    /\ Cardinality(InputKeys) = 2
    /\ comment_list[1].parent_id = None
    /\ comment_list[2].parent_id # None
    /\ comment_list[3].parent_id = None
    /\ comment_list[3] # comment_list[1]
    /\ comment_list[4] = comment_list[2]
    /\ Len(comment_tree.items[None]) = 2

(***************************************************************************)
(* Claims about download_page.                                             *)
(***************************************************************************)
Redirect(r) == r.status \in {301, 302, 303, 307, 308}
NoLocation(r) == r.location = None \/ r.location[1].data = <<>>

\* C19: the call makes at most 5 GET requests and asks for no further one
\* after the 5th or after a response it does not follow; it ends by
\* returning the body of the last response received, which is the first
\* non-redirect response, a redirect without a Location header, or the 5th
\* redirect in a row; it never raises, RuntimeError included.
C19_ReturnsLastBodyWithinFiveGets ==
    /\ gets <= 5
    /\ pc = "loop" =>
          /\ gets < 5
          /\ gets > 0 => (Redirect(resp[1]) /\ ~NoLocation(resp[1]))
    /\ pc \in {"after", "done"} =>
          /\ gets >= 1
          /\ \/ ~Redirect(resp[1])
             \/ NoLocation(resp[1])
             \/ gets = 5
    /\ pc = "done" => ret = Text(resp[1])
    /\ ret # RuntimeError

====
